---- MODULE Spec2Model ----
(***************************************************************************)
(* Section extraction and cataloguing pipeline of section_processor.py:    *)
(* SectionProcessor.run_full_processing and the phases it calls.           *)
(*                                                                         *)
(* Strings the code transforms (type tags, unique ids, file names) are     *)
(* sequences of one-character strings, so lower(), replace() and the       *)
(* 04d format are computed character by character.                         *)
(***************************************************************************)
EXTENDS Integers, Sequences, FiniteSets, TLC

(***************************************************************************)
(* Bounds of the model.                                                    *)
(***************************************************************************)
\* annotation files found by the glob in one run
MaxFiles == 2
\* section entries over all admitted annotations of one run
MaxSections == 2
\* size of every decoded screenshot of the pipeline runs: one pixel taller
\* than the thumbnail bound, so that a crop can be scaled down
ImgW == 3
ImgH == 151
\* largest side of an image, for crop_section_image called on its own
MaxImgSide == 3

(***************************************************************************)
(* Character-level helpers.                                                *)
(***************************************************************************)
Min(a, b) == IF a <= b THEN a ELSE b
Max(a, b) == IF a >= b THEN a ELSE b

Digits == <<"0", "1", "2", "3", "4", "5", "6", "7", "8", "9">>

\* str(n) for n >= 0
RECURSIVE Dec(_)
Dec(n) == IF n < 10 THEN <<Digits[n + 1]>>
          ELSE Dec(n \div 10) \o <<Digits[(n % 10) + 1]>>

\* the zero fill of the format spec 04d: pad on the left up to the width
RECURSIVE ZeroPad(_, _)
ZeroPad(s, w) == IF Len(s) >= w THEN s ELSE ZeroPad(<<"0">> \o s, w)

\* str.lower() on the letters the model's inputs use
Lower(c) == CASE c = "H" -> "h"
              [] c = "B" -> "b"
              [] OTHER -> c

\* str.replace(" ", "_")
ReplaceSpace(c) == IF c = " " THEN "_" ELSE c

\* str.replace(" ", "")
RECURSIVE RemoveSpaces(_)
RemoveSpaces(s) == IF s = <<>> THEN <<>>
                   ELSE IF Head(s) = " " THEN RemoveSpaces(Tail(s))
                   ELSE <<Head(s)>> \o RemoveSpaces(Tail(s))

\* value of a decimal digit character, -1 for any other character
DigitValue(c) == IF \E d \in 1..10 : Digits[d] = c
                 THEN (CHOOSE d \in 1..10 : Digits[d] = c) - 1
                 ELSE -1

\* index of the last "_" of s, 0 when there is none
LastUnderscore(s) == IF \E i \in 1..Len(s) : s[i] = "_"
                     THEN CHOOSE i \in 1..Len(s) :
                            /\ s[i] = "_"
                            /\ \A j \in (i + 1)..Len(s) : s[j] /= "_"
                     ELSE 0

RECURSIVE DecValue(_)
DecValue(s) == IF s = <<>> THEN 0
               ELSE 10 * DecValue(SubSeq(s, 1, Len(s) - 1)) + DigitValue(s[Len(s)])

\* the number written after the last "_" of a unique id
SuffixNum(uid) == DecValue(SubSeq(uid, LastUnderscore(uid) + 1, Len(uid)))

SeqsUpTo(S, n) == UNION {[1..k -> S] : k \in 0..n}

(***************************************************************************)
(* Inputs: the files of one run.                                           *)
(***************************************************************************)
TopFields == <<"source_image", "image_dimensions", "sections">>
SectionFields == <<"id", "type", "coordinates">>
Range(s) == {s[i] : i \in 1..Len(s)}

\* JSON values of the "type" key: strings, and a value that is no string
StrType(chars) == [is_str |-> TRUE, chars |-> chars]
NumType == [is_str |-> FALSE, chars |-> <<>>]
T_hero == StrType(<<"h", "e", "r", "o">>)
T_footer == StrType(<<"f", "o", "o", "t", "e", "r">>)
T_HeroBanner == StrType(<<"H", "e", "r", "o", " ", "B">>)
T_hero_banner == StrType(<<"h", "e", "r", "o", " ", "b">>)

\* JSON values of the "coordinates" key
Coords(x, y, w, h) == [has_keys |-> TRUE, x |-> x, y |-> y, width |-> w, height |-> h]
C_fit == Coords(0, 0, ImgW - 1, ImgH)
C_oversize == Coords(1, 0, ImgW + 2, 1)
C_degenerate == Coords(0, 0, 0, 1)
C_sliver == Coords(0, 0, 1, ImgH)

SectionSpec(present, type, coords) ==
    [present |-> present, type |-> type, coordinates |-> coords]

\* section entries that pass validation
ValidSections ==
    { SectionSpec(Range(SectionFields), T_hero, C_fit),
      SectionSpec(Range(SectionFields), T_hero, C_degenerate),
      SectionSpec(Range(SectionFields), T_footer, C_sliver),
      SectionSpec(Range(SectionFields), T_HeroBanner, C_oversize),
      SectionSpec(Range(SectionFields), T_hero_banner, C_fit),
      SectionSpec(Range(SectionFields), NumType, C_fit) }

\* section entries lacking one required key
FlawedSections ==
    { SectionSpec(Range(SectionFields) \ {f}, T_hero, C_fit) : f \in Range(SectionFields) }

SectionEntries == ValidSections \cup FlawedSections

\* file names
N_s1 == <<"s", "1">>
N_x == <<"x">>
SourceImages == {N_s1, N_x}
\* the files of store_screenshots/
Screenshots == {N_s1}
ScreenshotsDir == [exists |-> TRUE, files |-> Screenshots]
NoPath == <<>>
\* the path of the screenshots directory itself
DirItself == <<".">>

AnnotationRecord(parses, present, is_list, source_image, sections) ==
    [parses |-> parses, present |-> present, sections_is_list |-> is_list,
     source_image |-> source_image, sections |-> sections]

\* contents an annotation file can have, with at most n section entries
AnnotationRecords(n) ==
    { AnnotationRecord(TRUE, Range(TopFields), TRUE, s, ss) :
        s \in SourceImages, ss \in SeqsUpTo(SectionEntries, n) }
    \cup { AnnotationRecord(TRUE, p, TRUE, N_s1, <<>>) :
             p \in (SUBSET Range(TopFields)) \ {Range(TopFields)} }
    \cup { AnnotationRecord(TRUE, Range(TopFields), FALSE, N_s1, <<>>),
           AnnotationRecord(FALSE, {}, FALSE, N_s1, <<>>) }

(***************************************************************************)
(* Pure functions of SectionProcessor.                                     *)
(***************************************************************************)
\* an entry of processing_stats["errors"]: which message it is, and the number
\* of the annotation file it is about
Err(kind, file) == [kind |-> kind, file |-> file]

\* index of the first entry of fields that is not in present, 0 if none
FirstMissing(fields, present) ==
    IF \E i \in 1..Len(fields) : fields[i] \notin present
    THEN CHOOSE i \in 1..Len(fields) :
           /\ fields[i] \notin present
           /\ \A j \in 1..(i - 1) : fields[j] \in present
    ELSE 0

\* index of the first section entry lacking a required key, 0 if none
FirstFlawedSection(sections) ==
    IF \E i \in 1..Len(sections) : FirstMissing(SectionFields, sections[i].present) /= 0
    THEN CHOOSE i \in 1..Len(sections) :
           /\ FirstMissing(SectionFields, sections[i].present) /= 0
           /\ \A j \in 1..(i - 1) : FirstMissing(SectionFields, sections[j].present) = 0
    ELSE 0

\* validation that reports every missing top-level key before it returns
validate_annotation_all_missing(annotation, file) ==
    LET missing == {m \in 1..Len(TopFields) : TopFields[m] \notin annotation.present}
        i == FirstFlawedSection(annotation.sections)
    IN  IF missing /= {}
        THEN [ok |-> FALSE,
              errors |-> [k \in 1..Cardinality(missing) |-> Err("missing_field", file)]]
        ELSE IF ~annotation.sections_is_list
        THEN [ok |-> FALSE, errors |-> <<Err("sections_not_list", file)>>]
        ELSE IF i /= 0
        THEN [ok |-> FALSE, errors |-> <<Err("missing_section_field", file)>>]
        ELSE [ok |-> TRUE, errors |-> <<>>]

\* validation that returns True from inside the section loop, after section 0
validate_annotation_first_section_only(annotation, file) ==
    LET m == FirstMissing(TopFields, annotation.present)
    IN  IF m /= 0
        THEN [ok |-> FALSE, errors |-> <<Err("missing_field", file)>>]
        ELSE IF ~annotation.sections_is_list
        THEN [ok |-> FALSE, errors |-> <<Err("sections_not_list", file)>>]
        ELSE IF /\ annotation.sections /= <<>>
                /\ FirstMissing(SectionFields, annotation.sections[1].present) /= 0
        THEN [ok |-> FALSE, errors |-> <<Err("missing_section_field", file)>>]
        ELSE [ok |-> TRUE, errors |-> <<>>]

\* validate_annotation: the value returned and the entries appended to
\* processing_stats["errors"]
validate_annotation(annotation, file) ==
    LET m == FirstMissing(TopFields, annotation.present)
        i == FirstFlawedSection(annotation.sections)
    IN  IF m /= 0
        THEN [ok |-> FALSE, errors |-> <<Err("missing_field", file)>>]
        ELSE IF ~annotation.sections_is_list
        THEN [ok |-> FALSE, errors |-> <<Err("sections_not_list", file)>>]
        ELSE IF i /= 0
        THEN [ok |-> FALSE, errors |-> <<Err("missing_section_field", file)>>]
        ELSE [ok |-> TRUE, errors |-> <<>>]

\* (screenshots_dir / name).exists(): joining the empty name gives the directory
PathExists(screenshots_dir, name) ==
    /\ screenshots_dir.exists
    /\ name = <<>> \/ name \in screenshots_dir.files

\* screenshots_dir / name, as the name of the file or DirItself
JoinPath(name) == IF name = <<>> THEN DirItself ELSE name

\* find_matching_screenshot: the path found, NoPath for None
find_matching_screenshot(screenshots_dir, source_image) ==
    IF PathExists(screenshots_dir, source_image) THEN JoinPath(source_image)
    ELSE IF PathExists(screenshots_dir, RemoveSpaces(source_image))
    THEN JoinPath(RemoveSpaces(source_image))
    ELSE NoPath

\* generate_section_id with the counter left out of the format
generate_section_id_no_counter(type, counter) ==
    [i \in 1..Len(type.chars) |-> ReplaceSpace(Lower(type.chars[i]))]
        \o <<"_">> \o ZeroPad(Dec(1), 4)

\* generate_section_id, for a type that is a string
generate_section_id(type, counter) ==
    [i \in 1..Len(type.chars) |-> ReplaceSpace(Lower(type.chars[i]))]
        \o <<"_">> \o ZeroPad(Dec(counter), 4)

MediumW == 400
MediumH == 300
ThumbW == 200
ThumbH == 150

\* The sides the resize is evaluated for: every side up to MaxSmallSide and
\* sides around and beyond the two bounds.
MaxSmallSide == 4
LargeSides == {149, 150, 151, 152, 199, 200, 201, 281, 299, 300, 301,
               399, 400, 401, 562, 800, 1124, 1200}
ResizeSides == (1..MaxSmallSide) \cup LargeSides

\* scale = bound / limiting and side * scale are IEEE-754 doubles.  The triples
\* <<side, bound, limiting>>, over sides up to 8 and LargeSides, for which the
\* double side * (bound / limiting) lies just below the whole number
\* side * bound / limiting, so that int() gives one less than that number
\* (562 * (300 / 562) is 299.99999999999994).
ProductsRoundedDown ==
    {<<281, 150, 281>>, <<281, 150, 562>>, <<562, 150, 562>>, <<562, 150, 1124>>,
     <<1124, 150, 1124>>, <<281, 300, 562>>, <<562, 300, 562>>, <<281, 300, 1124>>,
     <<562, 300, 1124>>, <<1124, 300, 1124>>}

\* int(side * scale) for scale = bound / limiting < 1
ScaledSide(side, bound, limiting) ==
    IF <<side, bound, limiting>> \in ProductsRoundedDown
    THEN (side * bound) \div limiting - 1
    ELSE (side * bound) \div limiting

\* the resize without the 1.0 in the min: a small crop is scaled up to the bound
calculate_resize_no_cap(original_size, max_size) ==
    LET width == original_size[1]
        height == original_size[2]
        max_width == max_size[1]
        max_height == max_size[2]
    IN  IF max_width * height <= max_height * width
        THEN <<ScaledSide(width, max_width, width), ScaledSide(height, max_width, width)>>
        ELSE <<ScaledSide(width, max_height, height), ScaledSide(height, max_height, height)>>

\* calculate_resize: scale = min(max_w / w, max_h / h, 1.0), each side int(side * scale)
calculate_resize(original_size, max_size) ==
    LET width == original_size[1]
        height == original_size[2]
        max_width == max_size[1]
        max_height == max_size[2]
    IN  IF max_width >= width /\ max_height >= height
        THEN <<width, height>>
        ELSE IF max_width * height <= max_height * width
        THEN <<ScaledSide(width, max_width, width), ScaledSide(height, max_width, width)>>
        ELSE <<ScaledSide(width, max_height, height), ScaledSide(height, max_height, height)>>

\* the clamping that shifts x and y back so that the annotated size fits
ClampCoords_reshift(coords, img_size) ==
    LET x == Max(0, Min(coords.x, img_size[1] - coords.width))
        y == Max(0, Min(coords.y, img_size[2] - coords.height))
    IN  [x |-> x, y |-> y,
         width |-> Min(coords.width, img_size[1] - x),
         height |-> Min(coords.height, img_size[2] - y)]

\* the clamping with width and height taken as annotated
ClampCoords_position_only(coords, img_size) ==
    [x |-> Max(0, Min(coords.x, img_size[1])),
     y |-> Max(0, Min(coords.y, img_size[2])),
     width |-> coords.width,
     height |-> coords.height]

\* the clamping of crop_section_image
ClampCoords(coords, img_size) ==
    LET x == Max(0, Min(coords.x, img_size[1]))
        y == Max(0, Min(coords.y, img_size[2]))
    IN  [x |-> x, y |-> y,
         width |-> Min(coords.width, img_size[1] - x),
         height |-> Min(coords.height, img_size[2] - y)]

NoCrop(why) ==
    [ok |-> FALSE, why |-> why, box |-> <<0, 0, 0, 0>>,
     original |-> <<0, 0>>, medium |-> <<0, 0>>, thumbnail |-> <<0, 0>>,
     written |-> {}]

\* None returned by the except clause after the derivatives in written were saved
RaisedAfter(written) == [NoCrop("exception") EXCEPT !.written = written]

\* crop_section_image: the dict returned, or None (ok = FALSE) with the branch
\* that returned it, and the derivatives saved by then.  The three save calls
\* succeed; resize raises on an empty size, after the saves that precede it.
crop_section_image(img_size, coords) ==
    IF ~coords.has_keys THEN NoCrop("exception")
    ELSE LET c == ClampCoords(coords, img_size)
             medium_size == calculate_resize(<<c.width, c.height>>, <<MediumW, MediumH>>)
             thumb_size == calculate_resize(<<c.width, c.height>>, <<ThumbW, ThumbH>>)
         IN  IF c.width <= 0 \/ c.height <= 0 THEN NoCrop("invalid")
             ELSE IF medium_size[1] < 1 \/ medium_size[2] < 1
             THEN RaisedAfter({"full"})
             ELSE IF thumb_size[1] < 1 \/ thumb_size[2] < 1
             THEN RaisedAfter({"full", "medium"})
             ELSE [ok |-> TRUE, why |-> "ok",
                   box |-> <<c.x, c.y, c.x + c.width, c.y + c.height>>,
                   original |-> <<c.width, c.height>>,
                   medium |-> medium_size, thumbnail |-> thumb_size,
                   written |-> {"full", "medium", "thumbnail"}]

(***************************************************************************)
(* State of one SectionProcessor and of its run.                           *)
(***************************************************************************)
VARIABLES
    pc,                     \* position of run_full_processing
    annotations_dir_exists, \* self.annotations_dir.exists()
    files_read,             \* annotation files the loop of load_annotations has taken
    sections_read,          \* section entries of the annotations admitted so far
    annotations,            \* self.annotations
    sections_catalog,       \* self.sections_catalog
    section_types,          \* self.section_types
    processing_stats,       \* self.processing_stats
    section_counter,        \* the local section_counter of crop_sections
    ann_idx,                \* position of the annotation loop of crop_sections
    sec_idx,                \* position of its section loop
    img_open,               \* crop_sections is inside the with block of a screenshot
    progress,               \* per admitted annotation: what became of each section
    dropped,                \* items dropped so far
    patterns_doc,           \* data/patterns.json
    catalog_doc,            \* data/modules_catalog.json
    templates_written,      \* data/templates.json is written
    stats_doc,              \* stats/analysis.json
    reads,                  \* per annotation file read: what its record lacks
    analysis,               \* PerformanceAnalyzer run on the written catalog
    files,                  \* derivative files under full/, medium/ and thumbnails/
    crop_call,              \* arguments of a call of crop_section_image on its own
    crop_result,            \* what that call returned
    id_call,                \* arguments of a call of generate_section_id on its own
    id_result,              \* the string it returned
    resize_call,            \* arguments of a call of calculate_resize on its own
    resize_result,          \* the size it returned
    resolve_call,           \* a screenshots directory and a source_image to resolve in it
    resolve_result          \* what the lookup returned and what the loader did with it

vars == <<pc, annotations_dir_exists, files_read, sections_read, annotations,
          sections_catalog, section_types, processing_stats, section_counter,
          ann_idx, sec_idx, img_open, progress, dropped, patterns_doc,
          catalog_doc, templates_written, stats_doc, reads, analysis, files,
          crop_call, crop_result,
          id_call, id_result, resize_call, resize_result, resolve_call,
          resolve_result>>

crop_vars == <<crop_call, crop_result>>
id_vars == <<id_call, id_result>>
resize_vars == <<resize_call, resize_result>>
resolve_vars == <<resolve_call, resolve_result>>

\* the variables of the calls checked on their own, which a run leaves alone
unit_vars == <<crop_vars, id_vars, resize_vars, resolve_vars>>

\* the variables of a run, which a call checked on its own leaves alone
run_vars == <<pc, annotations_dir_exists, files_read, sections_read, annotations,
              sections_catalog, section_types, processing_stats, section_counter,
              ann_idx, sec_idx, img_open, progress, dropped, patterns_doc,
              catalog_doc, templates_written, stats_doc, reads, analysis, files>>

EmptyMap == [k \in {} |-> <<>>]

NoPatterns == [written |-> FALSE, counts |-> EmptyMap, total_sections |-> 0, unique_types |-> 0]
NoCatalog == [written |-> FALSE, total_modules |-> 0, source_stores |-> 0,
              section_types |-> {}, modules |-> <<>>, types_index |-> EmptyMap]
NoStats == [written |-> FALSE, files_processed |-> 0, sections_extracted |-> 0,
            errors_count |-> 0, section_type_breakdown |-> EmptyMap, errors |-> <<>>]

NotAnalyzed == [status |-> "none", enriched |-> <<>>]

NoCall == [img_size |-> <<0, 0>>, coords |-> Coords(0, 0, 0, 0)]

\* SectionProcessor.__init__
InitRun ==
    /\ pc = "start"
    /\ annotations_dir_exists \in BOOLEAN
    /\ files_read = 0
    /\ sections_read = 0
    /\ annotations = <<>>
    /\ sections_catalog = <<>>
    /\ section_types = EmptyMap
    /\ processing_stats = [files_processed |-> 0, sections_extracted |-> 0,
                           section_types_found |-> {}, errors |-> <<>>]
    /\ section_counter = 0
    /\ ann_idx = 0
    /\ sec_idx = 0
    /\ img_open = FALSE
    /\ progress = <<>>
    /\ dropped = 0
    /\ patterns_doc = NoPatterns
    /\ catalog_doc = NoCatalog
    /\ templates_written = FALSE
    /\ stats_doc = NoStats
    /\ reads = <<>>
    /\ analysis = NotAnalyzed
    /\ files = {}

NoIdCall == [type |-> NumType, counter |-> 0]

IdleCrop == crop_call = NoCall /\ crop_result = NoCrop("pending")
NoResizeCall == [size |-> <<0, 0>>, max_size |-> <<0, 0>>]

IdleId == id_call = NoIdCall /\ id_result = <<>>
IdleResize == resize_call = NoResizeCall /\ resize_result = <<>>

NoResolveCall == [screenshots_dir |-> [exists |-> FALSE, files |-> {}],
                  source_image |-> DirItself]
NotResolved == [done |-> FALSE, path |-> NoPath, admit |-> FALSE, errors |-> <<>>]
IdleResolve == resolve_call = NoResolveCall /\ resolve_result = NotResolved

Init ==
    /\ InitRun
    /\ IdleCrop
    /\ IdleId
    /\ IdleResize
    /\ IdleResolve

\* the error list assigned the new entries instead of extended by them
AddErrors_assign(stats, errs) == [stats EXCEPT !.errors = errs]

\* self.processing_stats["errors"].append, once per entry
AddErrors(stats, errs) == [stats EXCEPT !.errors = @ \o errs]

(***************************************************************************)
(* Phase 1: load_annotations.                                              *)
(***************************************************************************)
\* the directory test left out
AfterSetup_no_directory_test(dir_exists) == "load"

\* where run_full_processing is after the directory test of load_annotations:
\* in the file loop, or left through the FileNotFoundError it re-raises
AfterSetup(dir_exists) == IF dir_exists THEN "load" ELSE "aborted"

\* setup_directories, then the directory test that opens load_annotations
Setup ==
    /\ pc = "start"
    /\ pc' = AfterSetup(annotations_dir_exists)
    /\ UNCHANGED <<unit_vars, analysis, files, reads, annotations_dir_exists, files_read, sections_read, annotations,
                   sections_catalog, section_types, processing_stats, section_counter,
                   ann_idx, sec_idx, img_open, progress, dropped, patterns_doc,
                   catalog_doc, templates_written, stats_doc>>

\* one iteration of the file loop: whether the record is appended to
\* self.annotations, and the entries appended to the error list
LoadOutcome(annotation, file, screenshots_dir) ==
    LET v == validate_annotation(annotation, file)
    IN  IF ~annotation.parses
        THEN [admit |-> FALSE, errors |-> <<Err("load_exception", file)>>]
        ELSE IF ~v.ok
        THEN [admit |-> FALSE, errors |-> v.errors]
        ELSE IF find_matching_screenshot(screenshots_dir, annotation.source_image) /= NoPath
        THEN [admit |-> TRUE, errors |-> <<>>]
        ELSE [admit |-> FALSE, errors |-> <<Err("no_screenshot", file)>>]

Admitted(annotation, file, screenshots_dir) ==
    [source_image |-> annotation.source_image,
     sections |-> annotation.sections,
     screenshot_path |-> find_matching_screenshot(screenshots_dir, annotation.source_image),
     annotation_file |-> file]

\* a parsed record without one of the three required keys
LacksTopField(annotation) ==
    annotation.parses /\ annotation.present /= Range(TopFields)

\* a parsed record one of whose section entries is without a required key
HasFlawedSection(annotation) ==
    /\ annotation.parses
    /\ \E i \in 1..Len(annotation.sections) :
         annotation.sections[i].present /= Range(SectionFields)

LoadFile ==
    /\ pc = "load"
    /\ files_read < MaxFiles
    /\ \E annotation \in AnnotationRecords(MaxSections - sections_read) :
         LET file == files_read + 1
             out == LoadOutcome(annotation, file, ScreenshotsDir)
         IN  /\ files_read' = file
             /\ reads' = Append(reads, [missing |-> LacksTopField(annotation),
                                        flawed |-> HasFlawedSection(annotation)])
             /\ IF out.admit
                THEN /\ sections_read' = sections_read + Len(annotation.sections)
                     /\ annotations' = Append(annotations,
                                          Admitted(annotation, file, ScreenshotsDir))
                     /\ progress' = Append(progress,
                                           [opens |-> 0, closes |-> 0,
                                            status |-> [i \in 1..Len(annotation.sections)
                                                          |-> "pending"]])
                     /\ processing_stats' =
                          AddErrors([processing_stats EXCEPT !.files_processed = @ + 1],
                                    out.errors)
                     /\ UNCHANGED dropped
                ELSE /\ processing_stats' = AddErrors(processing_stats, out.errors)
                     /\ dropped' = dropped + 1
                     /\ UNCHANGED <<sections_read, annotations, progress>>
    /\ UNCHANGED <<unit_vars, analysis, files, pc, annotations_dir_exists, sections_catalog, section_types,
                   section_counter, ann_idx, sec_idx, img_open, patterns_doc,
                   catalog_doc, templates_written, stats_doc>>

\* load_annotations returns; run_full_processing returns early when nothing
\* was admitted, and enters crop_sections otherwise
LoadReturn ==
    /\ pc = "load"
    /\ IF annotations = <<>>
       THEN /\ pc' = "done"
            /\ UNCHANGED <<section_counter, ann_idx>>
       ELSE /\ pc' = "crop"
            /\ section_counter' = 1
            /\ ann_idx' = 1
    /\ UNCHANGED <<unit_vars, analysis, files, reads, annotations_dir_exists, files_read, sections_read, annotations,
                   sections_catalog, section_types, processing_stats, sec_idx,
                   img_open, progress, dropped, patterns_doc, catalog_doc,
                   templates_written, stats_doc>>

(***************************************************************************)
(* Phase 2: crop_sections.                                                 *)
(***************************************************************************)
\* the counter never incremented
NextSectionCounter_stuck(counter, cropped_ok) == counter

\* the counter incremented for every section, cropped or not
NextSectionCounter_always(counter, cropped_ok) == counter + 1

\* section_counter after one section: incremented inside "if cropped_section"
NextSectionCounter(counter, cropped_ok) == IF cropped_ok THEN counter + 1 ELSE counter

\* the entry put at the head of its group
AppendToGroup_prepend(groups, key, entry) ==
    [k \in DOMAIN groups \cup {key} |->
        IF k = key
        THEN <<entry>> \o (IF key \in DOMAIN groups THEN groups[key] ELSE <<>>)
        ELSE groups[k]]

\* the group assigned anew instead of appended to
AppendToGroup_overwrite(groups, key, entry) ==
    [k \in DOMAIN groups \cup {key} |-> IF k = key THEN <<entry>> ELSE groups[k]]

\* self.section_types[key].append(entry) on the defaultdict
AppendToGroup(groups, key, entry) ==
    [k \in DOMAIN groups \cup {key} |->
        IF k = key
        THEN Append(IF key \in DOMAIN groups THEN groups[key] ELSE <<>>, entry)
        ELSE groups[k]]

\* the count incremented without the type recorded
CountExtracted_count_only(stats, type) ==
    [stats EXCEPT !.sections_extracted = @ + 1]

\* sections_extracted += 1 and section_types_found.add(section["type"])
CountExtracted(stats, type) ==
    [stats EXCEPT !.sections_extracted = @ + 1,
                  !.section_types_found = @ \cup {type}]

\* filename_base = f"{section_id}_{section_type}"
FilenameBase(section_id, type) == section_id \o <<"_">> \o type.chars

\* the files one call of crop_section_image saved: directory and file name base
SavedFiles(cropped, section_id, type) ==
    {<<kind, FilenameBase(section_id, type)>> : kind \in cropped.written}

\* the section dict after the metadata keys are set on it
CatalogEntry(annotation, index, section_id, cropped) ==
    [origin |-> <<annotation.annotation_file, index>>,
     present |-> annotation.sections[index].present,
     type |-> annotation.sections[index].type,
     coordinates |-> annotation.sections[index].coordinates,
     unique_id |-> section_id,
     source_file |-> annotation.screenshot_path,
     cropped_files |-> cropped]

\* the statements of the section loop body that raise outside crop_section_image:
\* section["type"].lower() and section["coordinates"]
SectionRaises(section) ==
    \/ "type" \notin section.present
    \/ ~section.type.is_str
    \/ "coordinates" \notin section.present

SetStatus(p, a, i, what) == [p EXCEPT ![a].status[i] = what]

\* Image.open and the entry of the with block: the screenshot of annotation a is open
EnterWith(p, a) == [p EXCEPT ![a].opens = @ + 1]

\* a with block that closes the screenshot only when its body ends normally
ExitWith_not_on_exception(p, a, raised) ==
    IF raised THEN p ELSE [p EXCEPT ![a].closes = @ + 1]

\* the exit of the with block closes the screenshot, whether the body ended
\* normally or raised
ExitWith(p, a, raised) == [p EXCEPT ![a].closes = @ + 1]

\* the with statement opens the current annotation's screenshot, the file
\* find_matching_screenshot found at load time
OpenScreenshot ==
    /\ pc = "crop"
    /\ ann_idx <= Len(annotations)
    /\ ~img_open
    /\ img_open' = TRUE
    /\ sec_idx' = 1
    /\ progress' = EnterWith(progress, ann_idx)
    /\ UNCHANGED <<unit_vars, analysis, files, reads, pc, annotations_dir_exists, files_read, sections_read, annotations,
                   sections_catalog, section_types, processing_stats, section_counter,
                   ann_idx, dropped, patterns_doc, catalog_doc, templates_written,
                   stats_doc>>

\* one iteration of the section loop
CropSection ==
    /\ pc = "crop"
    /\ img_open
    /\ sec_idx <= Len(annotations[ann_idx].sections)
    /\ LET annotation == annotations[ann_idx]
           section == annotation.sections[sec_idx]
       IN  IF SectionRaises(section)
           THEN \* the exception leaves the with block and the section loop
                /\ img_open' = FALSE
                /\ processing_stats' =
                     AddErrors(processing_stats,
                               <<Err("processing_exception",
                                     annotation.annotation_file)>>)
                /\ progress' = SetStatus(ExitWith(progress, ann_idx, TRUE),
                                         ann_idx, sec_idx, "dropped")
                /\ dropped' = dropped + 1
                /\ ann_idx' = ann_idx + 1
                /\ sec_idx' = 0
                /\ UNCHANGED <<sections_catalog, section_types, section_counter, files>>
           ELSE LET section_id == generate_section_id(section.type, section_counter)
                    cropped == crop_section_image(<<ImgW, ImgH>>, section.coordinates)
                    entry == CatalogEntry(annotation, sec_idx, section_id, cropped)
                IN  /\ IF cropped.ok
                       THEN /\ sections_catalog' = Append(sections_catalog, entry)
                            /\ section_types' =
                                 AppendToGroup(section_types, section.type, entry)
                            /\ processing_stats' =
                                 CountExtracted(processing_stats, section.type)
                            /\ progress' = SetStatus(progress, ann_idx, sec_idx, "extracted")
                            /\ UNCHANGED dropped
                       ELSE /\ progress' = SetStatus(progress, ann_idx, sec_idx, "dropped")
                            /\ dropped' = dropped + 1
                            /\ UNCHANGED <<sections_catalog, section_types, processing_stats>>
                    /\ files' = files \cup SavedFiles(cropped, section_id, section.type)
                    /\ section_counter' = NextSectionCounter(section_counter, cropped.ok)
                    /\ sec_idx' = sec_idx + 1
                    /\ UNCHANGED <<img_open, ann_idx>>
    /\ UNCHANGED <<unit_vars, analysis, reads, pc, annotations_dir_exists, files_read, sections_read, annotations,
                   patterns_doc, catalog_doc, templates_written, stats_doc>>

\* the section loop is exhausted: the with block closes the screenshot
CloseScreenshot ==
    /\ pc = "crop"
    /\ img_open
    /\ sec_idx > Len(annotations[ann_idx].sections)
    /\ img_open' = FALSE
    /\ progress' = ExitWith(progress, ann_idx, FALSE)
    /\ ann_idx' = ann_idx + 1
    /\ sec_idx' = 0
    /\ UNCHANGED <<unit_vars, analysis, files, reads, pc, annotations_dir_exists, files_read, sections_read, annotations,
                   sections_catalog, section_types, processing_stats, section_counter,
                   dropped, patterns_doc, catalog_doc, templates_written,
                   stats_doc>>

\* the annotation loop is exhausted: crop_sections returns
CropReturn ==
    /\ pc = "crop"
    /\ ~img_open
    /\ ann_idx > Len(annotations)
    /\ pc' = "analyze"
    /\ UNCHANGED <<unit_vars, analysis, files, reads, annotations_dir_exists, files_read, sections_read, annotations,
                   sections_catalog, section_types, processing_stats, section_counter,
                   ann_idx, sec_idx, img_open, progress, dropped, patterns_doc,
                   catalog_doc, templates_written, stats_doc>>

(***************************************************************************)
(* Phases 3 to 5 and the statistics.                                       *)
(***************************************************************************)
GroupSizes(groups) == [k \in DOMAIN groups |-> Len(groups[k])]

\* the types_index comprehension of generate_module_catalog
TypesIndex(groups) ==
    [k \in DOMAIN groups |-> [i \in 1..Len(groups[k]) |-> groups[k][i].unique_id]]

\* the analysis looking a fixed type up in the defaultdict, which adds its key
AnalyzePatterns_adds_key ==
    /\ pc = "analyze"
    /\ patterns_doc' = [written |-> TRUE,
                        counts |-> GroupSizes(section_types),
                        total_sections |-> Len(sections_catalog),
                        unique_types |-> Cardinality(DOMAIN section_types)]
    /\ section_types' = [k \in DOMAIN section_types \cup {T_hero} |->
                            IF k \in DOMAIN section_types THEN section_types[k] ELSE <<>>]
    /\ pc' = "catalog"
    /\ UNCHANGED <<unit_vars, analysis, files, reads, annotations_dir_exists, files_read, sections_read, annotations,
                   sections_catalog, processing_stats, section_counter,
                   ann_idx, sec_idx, img_open, progress, dropped, catalog_doc,
                   templates_written, stats_doc>>

\* analyze_patterns: a pass over section_types.items() and sections_catalog,
\* written to data/patterns.json
AnalyzePatterns ==
    /\ pc = "analyze"
    /\ patterns_doc' = [written |-> TRUE,
                        counts |-> GroupSizes(section_types),
                        total_sections |-> Len(sections_catalog),
                        unique_types |-> Cardinality(DOMAIN section_types)]
    /\ pc' = "catalog"
    /\ UNCHANGED <<unit_vars, analysis, files, reads, annotations_dir_exists, files_read, sections_read, annotations,
                   sections_catalog, section_types, processing_stats, section_counter,
                   ann_idx, sec_idx, img_open, progress, dropped, catalog_doc,
                   templates_written, stats_doc>>

GenerateModuleCatalog ==
    /\ pc = "catalog"
    /\ catalog_doc' = [written |-> TRUE,
                       total_modules |-> Len(sections_catalog),
                       source_stores |-> Len(annotations),
                       section_types |-> processing_stats.section_types_found,
                       modules |-> sections_catalog,
                       types_index |-> TypesIndex(section_types)]
    /\ pc' = "templates"
    /\ UNCHANGED <<unit_vars, analysis, files, reads, annotations_dir_exists, files_read, sections_read, annotations,
                   sections_catalog, section_types, processing_stats, section_counter,
                   ann_idx, sec_idx, img_open, progress, dropped, patterns_doc,
                   templates_written, stats_doc>>

GenerateReactTemplates ==
    /\ pc = "templates"
    /\ templates_written' = TRUE
    /\ pc' = "stats"
    /\ UNCHANGED <<unit_vars, analysis, files, reads, annotations_dir_exists, files_read, sections_read, annotations,
                   sections_catalog, section_types, processing_stats, section_counter,
                   ann_idx, sec_idx, img_open, progress, dropped, patterns_doc,
                   catalog_doc, stats_doc>>

GenerateStatistics ==
    /\ pc = "stats"
    /\ stats_doc' = [written |-> TRUE,
                     files_processed |-> processing_stats.files_processed,
                     sections_extracted |-> processing_stats.sections_extracted,
                     errors_count |-> Len(processing_stats.errors),
                     section_type_breakdown |-> GroupSizes(section_types),
                     errors |-> processing_stats.errors]
    /\ pc' = "done"
    /\ UNCHANGED <<unit_vars, analysis, files, reads, annotations_dir_exists, files_read, sections_read, annotations,
                   sections_catalog, section_types, processing_stats, section_counter,
                   ann_idx, sec_idx, img_open, progress, dropped, patterns_doc,
                   catalog_doc, templates_written>>

(***************************************************************************)
(* performance_analyzer.py on the catalog the run wrote.                   *)
(***************************************************************************)
\* the keys of a module of the catalog: those of the annotated section and the
\* four that crop_sections sets on it
ModuleKeys(module) ==
    module.present \cup {"unique_id", "source_file", "cropped_files", "processing_date"}

\* the key enrich_sections_with_performance reads to find the store's metrics
AnalyzerJoinKey == "source_image"

\* enrich_sections_with_performance: module[AnalyzerJoinKey] raises KeyError on
\* the first module without the key, before self.enriched_sections is assigned;
\* otherwise every module is appended with a performance_metrics key
enrich_sections_with_performance(modules) ==
    IF \E i \in 1..Len(modules) : AnalyzerJoinKey \notin ModuleKeys(modules[i])
    THEN [status |-> "key_error", enriched |-> <<>>]
    ELSE [status |-> "enriched",
          enriched |-> [i \in 1..Len(modules) |->
                          [module |-> modules[i], performance_metrics |-> TRUE]]]

\* run_analysis up to enrich_sections_with_performance, on modules_catalog.json
RunAnalysis ==
    /\ pc = "done"
    /\ catalog_doc.written
    /\ analysis.status = "none"
    /\ analysis' = enrich_sections_with_performance(catalog_doc.modules)
    /\ UNCHANGED <<unit_vars, files, reads, pc, annotations_dir_exists, files_read, sections_read,
                   annotations, sections_catalog, section_types, processing_stats,
                   section_counter, ann_idx, sec_idx, img_open, progress, dropped,
                   patterns_doc, catalog_doc, templates_written, stats_doc>>

Next ==
    \/ Setup
    \/ LoadFile
    \/ LoadReturn
    \/ OpenScreenshot
    \/ CropSection
    \/ CloseScreenshot
    \/ CropReturn
    \/ AnalyzePatterns
    \/ GenerateModuleCatalog
    \/ GenerateReactTemplates
    \/ GenerateStatistics
    \/ RunAnalysis

Spec == Init /\ [][Next]_vars

(***************************************************************************)
(* crop_section_image on its own: any image size up to MaxImgSide and any  *)
(* annotated rectangle around it, or a coordinates object lacking a key.   *)
(***************************************************************************)
MissingKeyCoords == [has_keys |-> FALSE, x |-> 0, y |-> 0, width |-> 0, height |-> 0]

CropCoordinates ==
    { Coords(x, y, w, h) : x \in (-2)..(MaxImgSide + 1), y \in (-2)..(MaxImgSide + 1),
                           w \in (-1)..(MaxImgSide + 2), h \in (-1)..(MaxImgSide + 2) }
    \cup {MissingKeyCoords}

InitCrop ==
    /\ InitRun
    /\ crop_call \in [img_size : (1..MaxImgSide) \X (1..MaxImgSide), coords : CropCoordinates]
    /\ crop_result = NoCrop("pending")
    /\ IdleId
    /\ IdleResize
    /\ IdleResolve

CropCall ==
    /\ crop_result.why = "pending"
    /\ crop_call /= NoCall
    /\ crop_result' = crop_section_image(crop_call.img_size, crop_call.coords)
    /\ UNCHANGED <<run_vars, crop_call, id_vars, resize_vars, resolve_vars>>

NextCrop == CropCall

SpecCrop == InitCrop /\ [][NextCrop]_vars

(***************************************************************************)
(* generate_section_id on its own: any short type string over letters,     *)
(* a capital, a space, a hyphen and a digit, and counters on both sides of *)
(* the four-digit width.                                                   *)
(***************************************************************************)
\* longest type string
MaxTypeLen == 2

TypeChars == {"h", "H", " ", "-", "7"}
TypeStrings == {StrType(cs) : cs \in SeqsUpTo(TypeChars, MaxTypeLen)}
CounterValues == {1, 27, 9999, 10000}

InitId ==
    /\ InitRun
    /\ IdleCrop
    /\ IdleResize
    /\ IdleResolve
    /\ id_call \in [type : TypeStrings, counter : CounterValues]
    /\ id_result = <<>>

IdCall ==
    /\ id_result = <<>>
    /\ id_call /= NoIdCall
    /\ id_result' = generate_section_id(id_call.type, id_call.counter)
    /\ UNCHANGED <<run_vars, crop_vars, id_call, resize_vars, resolve_vars>>

NextId == IdCall

SpecId == InitId /\ [][NextId]_vars

(***************************************************************************)
(* calculate_resize on its own: any crop size over ResizeSides against the *)
(* medium bound and against the thumbnail bound.                           *)
(***************************************************************************)
ResizeBounds == {<<MediumW, MediumH>>, <<ThumbW, ThumbH>>}

InitResize ==
    /\ InitRun
    /\ IdleCrop
    /\ IdleId
    /\ IdleResolve
    /\ resize_call \in [size : ResizeSides \X ResizeSides, max_size : ResizeBounds]
    /\ resize_result = <<>>

ResizeCall ==
    /\ resize_result = <<>>
    /\ resize_call /= NoResizeCall
    /\ resize_result' = calculate_resize(resize_call.size, resize_call.max_size)
    /\ UNCHANGED <<run_vars, crop_vars, id_vars, resize_call, resolve_vars>>

NextResize == ResizeCall

SpecResize == InitResize /\ [][NextResize]_vars

(***************************************************************************)
(* The screenshot lookup of load_annotations on its own: a record that     *)
(* passes validation, with any short source_image over a letter, a space   *)
(* and a tab, against a screenshots directory holding any of the names the *)
(* lookup can ask for.                                                     *)
(***************************************************************************)
\* longest source_image
MaxNameLen == 2

NameChars == {"a", " ", "\t"}
Names == SeqsUpTo(NameChars, MaxNameLen)

RECURSIVE RemoveWhitespace(_)
RemoveWhitespace(s) == IF s = <<>> THEN <<>>
                       ELSE IF Head(s) \in {" ", "\t"} THEN RemoveWhitespace(Tail(s))
                       ELSE <<Head(s)>> \o RemoveWhitespace(Tail(s))

\* the file names a lookup of name can depend on
Candidates(name) == {name, RemoveSpaces(name), RemoveWhitespace(name)} \ {<<>>}

\* the states of the screenshots directory a lookup of name can tell apart
DirsFor(name) ==
    {[exists |-> TRUE, files |-> fs] : fs \in SUBSET Candidates(name)}
    \cup {[exists |-> FALSE, files |-> {}]}

ResolveCalls ==
    UNION { {[screenshots_dir |-> d, source_image |-> name] : d \in DirsFor(name)} :
            name \in Names }

InitResolve ==
    /\ InitRun
    /\ IdleCrop
    /\ IdleId
    /\ IdleResize
    /\ resolve_call \in ResolveCalls
    /\ resolve_result = NotResolved

\* lines 85-97 for one record that passes validation
ResolveCall ==
    /\ ~resolve_result.done
    /\ resolve_call /= NoResolveCall
    /\ LET annotation == AnnotationRecord(TRUE, Range(TopFields), TRUE,
                                          resolve_call.source_image, <<>>)
           out == LoadOutcome(annotation, 1, resolve_call.screenshots_dir)
       IN  resolve_result' =
             [done |-> TRUE,
              path |-> find_matching_screenshot(resolve_call.screenshots_dir,
                                                resolve_call.source_image),
              admit |-> out.admit,
              errors |-> out.errors]
    /\ UNCHANGED <<run_vars, crop_vars, id_vars, resize_vars, resolve_call>>

NextResolve == ResolveCall

SpecResolve == InitResolve /\ [][NextResolve]_vars

(***************************************************************************)
(* Properties.                                                             *)
(***************************************************************************)
CatalogIndices == 1..Len(sections_catalog)

\* C1: the unique_id values of the entries of sections_catalog are pairwise
\* distinct, whatever annotations and sections crop_sections has processed.
C1_UniqueIdsDistinct ==
    \A i, j \in CatalogIndices :
        i /= j => sections_catalog[i].unique_id /= sections_catalog[j].unique_id

\* two catalogued sections of the same type that come from different annotations
C1_Witness ==
    \E i, j \in CatalogIndices :
        /\ i < j
        /\ sections_catalog[i].type = sections_catalog[j].type
        /\ sections_catalog[i].origin[1] /= sections_catalog[j].origin[1]

\* the unique_ids of the modules of one type, in list order
IdsOfType(modules, type) ==
    LET F[i \in 0..Len(modules)] ==
            IF i = 0 THEN <<>>
            ELSE IF modules[i].type = type THEN Append(F[i - 1], modules[i].unique_id)
            ELSE F[i - 1]
    IN  F[Len(modules)]

\* the index rebuilt from a flat module list by grouping unique_ids by type
RebuiltIndex(modules) ==
    [t \in {modules[i].type : i \in 1..Len(modules)} |-> IdsOfType(modules, t)]

\* C2: the types_index written by generate_module_catalog equals the index
\* rebuilt from the written flat module list by grouping unique_ids by type in
\* list order, so no id of the list is missing from it and no id in it is stale.
C2_TypesIndexMatchesModules ==
    catalog_doc.written =>
        /\ catalog_doc.types_index = RebuiltIndex(catalog_doc.modules)
        /\ \A i \in 1..Len(catalog_doc.modules) :
             \E t \in DOMAIN catalog_doc.types_index :
                \E k \in 1..Len(catalog_doc.types_index[t]) :
                   catalog_doc.types_index[t][k] = catalog_doc.modules[i].unique_id
        /\ \A t \in DOMAIN catalog_doc.types_index :
             \A k \in 1..Len(catalog_doc.types_index[t]) :
                \E i \in 1..Len(catalog_doc.modules) :
                   catalog_doc.modules[i].unique_id = catalog_doc.types_index[t][k]

\* a written catalog with a type that has two modules, from different annotations
C2_Witness ==
    /\ catalog_doc.written
    /\ \E t \in DOMAIN catalog_doc.types_index : Len(catalog_doc.types_index[t]) >= 2
    /\ catalog_doc.source_stores >= 2
    /\ \E i, j \in 1..Len(catalog_doc.modules) :
          catalog_doc.modules[i].origin[1] /= catalog_doc.modules[j].origin[1]

\* C3: for every section crop_section_image accepts, the crop box
\* (x, y, x + width, y + height) lies inside the image: 0 <= x < image_width,
\* 0 <= y < image_height, x + width <= image_width, y + height <= image_height,
\* whatever the annotated integers are.
C3_CropBoxInsideImage ==
    crop_result.ok =>
        /\ 0 <= crop_result.box[1] /\ crop_result.box[1] < crop_call.img_size[1]
        /\ 0 <= crop_result.box[2] /\ crop_result.box[2] < crop_call.img_size[2]
        /\ crop_result.box[3] <= crop_call.img_size[1]
        /\ crop_result.box[4] <= crop_call.img_size[2]

\* an accepted section annotated with a negative x and reaching past both the
\* right and the bottom edge
C3_Witness ==
    /\ crop_result.ok
    /\ crop_call.coords.x < 0
    /\ crop_call.coords.x + crop_call.coords.width > crop_call.img_size[1]
    /\ crop_call.coords.y + crop_call.coords.height > crop_call.img_size[2]

\* positions of run_full_processing after crop_sections has returned
AfterCrop == {"analyze", "catalog", "templates", "stats", "done"}

\* C4 (as claimed): once crop_sections has returned, every section of every
\* admitted annotation has been either extracted or dropped; a failure on one
\* section leaves no later sibling and no later annotation unprocessed.
C4_Claim_EverySectionProcessed ==
    pc \in AfterCrop =>
        \A a \in 1..Len(progress) :
            \A i \in 1..Len(progress[a].status) : progress[a].status[i] /= "pending"

FilesOfAnnotations == {annotations[a].annotation_file : a \in 1..Len(annotations)}
FilesOfCatalog == {sections_catalog[i].origin[1] : i \in CatalogIndices}
ErrorsAbout(file) ==
    {k \in 1..Len(processing_stats.errors) : processing_stats.errors[k].file = file}

\* C5: a record missing any of source_image, image_dimensions, sections is not
\* added to annotations, yields no catalog entry, and adds exactly one entry to
\* the error list.
C5_MissingFieldRejectedOnce ==
    \A f \in 1..Len(reads) :
        reads[f].missing =>
            /\ f \notin FilesOfAnnotations
            /\ f \notin FilesOfCatalog
            /\ Cardinality(ErrorsAbout(f)) = 1

\* a record missing a field was read in a run that also catalogued a section
C5_Witness ==
    /\ \E f \in 1..Len(reads) : reads[f].missing
    /\ sections_catalog /= <<>>

\* C6: if an entry of an annotation's sections lacks id, type or coordinates, the
\* whole annotation is rejected: none of its sections reaches annotations or the
\* catalog, the reason is in the error list, and load_annotations has not raised.
C6_FlawedSectionRejectsAnnotation ==
    \A f \in 1..Len(reads) :
        reads[f].flawed =>
            /\ f \notin FilesOfAnnotations
            /\ f \notin FilesOfCatalog
            /\ \E k \in ErrorsAbout(f) :
                  processing_stats.errors[k].kind = "missing_section_field"
            /\ pc /= "aborted"

\* the first record read had a flawed section entry, and the record read after
\* it was admitted and has a section in the catalog
C6_Witness ==
    /\ Len(reads) >= 2
    /\ reads[1].flawed
    /\ 2 \in FilesOfAnnotations
    /\ 2 \in FilesOfCatalog

\* C7 (as claimed): a run that got past the annotations directory test has, when
\* it returns, written the module catalog and the statistics document with the
\* accumulated error list.
C7_Claim_CompletedRunWritesReports ==
    pc = "done" =>
        /\ catalog_doc.written
        /\ stats_doc.written
        /\ stats_doc.errors = processing_stats.errors

\* C8 (as claimed): every dropped item has added an entry to the error list that
\* the statistics document carries, so errors_count is at least the number of
\* dropped items.
C8_Claim_EveryDropIsReported ==
    stats_doc.written => stats_doc.errors_count >= dropped

\* C9: the identity counter is one sequence that starts at 1 and is not reset
\* between annotations or types: the numeric suffixes of the unique_ids strictly
\* increase along sections_catalog.
C9_SuffixesIncrease ==
    /\ pc = "crop" => section_counter >= 1
    /\ \A i \in CatalogIndices : SuffixNum(sections_catalog[i].unique_id) >= 1
    /\ \A i, j \in CatalogIndices :
          i < j => SuffixNum(sections_catalog[i].unique_id)
                     < SuffixNum(sections_catalog[j].unique_id)

\* consecutive catalog entries of different types from different annotations
C9_Witness ==
    \E i \in CatalogIndices :
        /\ i + 1 \in CatalogIndices
        /\ sections_catalog[i].type /= sections_catalog[i + 1].type
        /\ sections_catalog[i].origin[1] /= sections_catalog[i + 1].origin[1]

\* 1-based position of a catalog entry's section among all sections of all
\* admitted annotations, in the order crop_sections visits them
AnnotationOf(file) == CHOOSE a \in 1..Len(annotations) : annotations[a].annotation_file = file
RECURSIVE SectionsBefore(_)
SectionsBefore(a) == IF a <= 1 THEN 0
                     ELSE SectionsBefore(a - 1) + Len(annotations[a - 1].sections)
DiscoveryPosition(entry) == SectionsBefore(AnnotationOf(entry.origin[1])) + entry.origin[2]

\* C10 (as claimed): the numeric suffix of an extracted section's unique_id is
\* the section's 1-based position in discovery order among all sections of all
\* admitted annotations.
C10_Claim_SuffixIsDiscoveryPosition ==
    \A i \in CatalogIndices :
        SuffixNum(sections_catalog[i].unique_id) = DiscoveryPosition(sections_catalog[i])

\* C10 (amended): the numeric suffix of an extracted section's unique_id is its
\* 1-based position among the extracted sections, that is, its position in
\* sections_catalog, regardless of type.
C10_SuffixIsCatalogPosition ==
    \A i \in CatalogIndices : SuffixNum(sections_catalog[i].unique_id) = i

\* an extracted section that comes after a dropped one
C10_Witness ==
    \E i \in CatalogIndices : DiscoveryPosition(sections_catalog[i]) > i

\* the characters of the class [a-z0-9_]
IdPrefixChars ==
    {"a", "b", "c", "d", "e", "f", "g", "h", "i", "j", "k", "l", "m", "n", "o", "p",
     "q", "r", "s", "t", "u", "v", "w", "x", "y", "z", "_"} \cup Range(Digits)

\* the string matches ^[a-z0-9_]+_\d{4}$
MatchesIdPattern(uid) ==
    /\ Len(uid) >= 6
    /\ uid[Len(uid) - 4] = "_"
    /\ \A i \in (Len(uid) - 3)..Len(uid) : uid[i] \in Range(Digits)
    /\ \A i \in 1..(Len(uid) - 5) : uid[i] \in IdPrefixChars

\* C11 (as claimed): every unique_id generate_section_id returns matches
\* ^[a-z0-9_]+_\d{4}$, for every type string validation admits and every
\* counter value.
C11_Claim_IdMatchesPattern ==
    id_result /= <<>> => MatchesIdPattern(id_result)

\* C12: whatever the crop size, the size calculate_resize returns for the medium
\* bound and for the thumbnail bound is no wider and no taller than the bound,
\* and no wider and no taller than the crop (never scaled up).
C12_ResizeWithinBoundAndCrop ==
    resize_result /= <<>> =>
        /\ resize_result[1] <= resize_call.max_size[1]
        /\ resize_result[2] <= resize_call.max_size[2]
        /\ resize_result[1] <= resize_call.size[1]
        /\ resize_result[2] <= resize_call.size[2]

\* a crop wider than the bound has been resized to exactly the bound's width
C12_Witness ==
    /\ resize_result /= <<>>
    /\ resize_call.size[1] > resize_call.max_size[1]
    /\ resize_result[1] = resize_call.max_size[1]
    /\ resize_result[2] < resize_call.size[2]

\* the scale s = min(bound_w / w, bound_h / h, 1) as a fraction <<numerator, denominator>>
ExactScale(size, max_size) ==
    IF max_size[1] >= size[1] /\ max_size[2] >= size[2] THEN <<1, 1>>
    ELSE IF max_size[1] * size[2] <= max_size[2] * size[1] THEN <<max_size[1], size[1]>>
    ELSE <<max_size[2], size[2]>>

\* side * s - got lies in [0, 1)
TruncationOf(side, s, got) ==
    /\ got * s[2] <= side * s[1]
    /\ side * s[1] < (got + 1) * s[2]

\* C13: for every crop size and each bound, the size calculate_resize returns keeps
\* the aspect ratio within one pixel: with s = min(bound_w / w, bound_h / h, 1),
\* both w * s - w' and h * s - h' lie in [0, 1).
C13_Claim_AspectWithinOnePixel ==
    resize_result /= <<>> =>
        LET s == ExactScale(resize_call.size, resize_call.max_size)
        IN  /\ TruncationOf(resize_call.size[1], s, resize_result[1])
            /\ TruncationOf(resize_call.size[2], s, resize_result[2])

\* the sections extracted so far, each named by its annotation file and its
\* position in that file's section list
ExtractedOrigins ==
    {o \in (1..MaxFiles) \X (1..MaxSections) :
        \E a \in 1..Len(progress) :
            /\ annotations[a].annotation_file = o[1]
            /\ o[2] \in 1..Len(progress[a].status)
            /\ progress[a].status[o[2]] = "extracted"}

\* the places of a section in the type groups
GroupPlaces(origin) ==
    {<<t, k>> \in (DOMAIN section_types) \X (1..MaxSections) :
        k <= Len(section_types[t]) /\ section_types[t][k].origin = origin}

\* the entries of the flat sequence that a group holds, in flat order
FlatOrderOf(group) ==
    SelectSeq(sections_catalog,
              LAMBDA entry : \E k \in 1..Len(group) : group[k].origin = entry.origin)

\* C14: at every point of a run each extracted section is exactly once in
\* sections_catalog and in exactly one type group, once, and every type group
\* lists its sections in the order they have in sections_catalog.
C14_OnceInFlatAndInOneGroup ==
    /\ \A o \in ExtractedOrigins :
          /\ Cardinality({i \in CatalogIndices : sections_catalog[i].origin = o}) = 1
          /\ Cardinality(GroupPlaces(o)) = 1
    /\ \A i \in CatalogIndices : sections_catalog[i].origin \in ExtractedOrigins
    /\ \A t \in DOMAIN section_types : section_types[t] = FlatOrderOf(section_types[t])

\* crop_sections is under way and a type group already holds two sections
C14_Witness ==
    /\ pc = "crop"
    /\ \E t \in DOMAIN section_types :
          /\ Len(section_types[t]) = 2
          /\ section_types[t][1].unique_id /= section_types[t][2].unique_id
    /\ Len(sections_catalog) = 2

\* the normalized form of a type tag: lower case, spaces replaced by underscores
NormalizedType(type) ==
    StrType([i \in 1..Len(type.chars) |-> ReplaceSpace(Lower(type.chars[i]))])

InGroup(group, entry) == \E k \in 1..Len(group) : group[k].origin = entry.origin
InIdList(ids, entry) == \E k \in 1..Len(ids) : ids[k] = entry.unique_id

\* C15 (as claimed): section_types and the types_index built from it are keyed
\* by the normalized type: two extracted sections whose type tags normalize to
\* the same string are in the same group, the one under that normalized key.
C15_Claim_GroupsKeyedByNormalizedType ==
    \A i, j \in CatalogIndices :
        LET a == sections_catalog[i]
            b == sections_catalog[j]
            key == NormalizedType(a.type)
        IN  NormalizedType(b.type) = key =>
              /\ key \in DOMAIN section_types
              /\ InGroup(section_types[key], a)
              /\ InGroup(section_types[key], b)
              /\ catalog_doc.written =>
                    /\ key \in DOMAIN catalog_doc.types_index
                    /\ InIdList(catalog_doc.types_index[key], a)
                    /\ InIdList(catalog_doc.types_index[key], b)

\* C17 (as claimed): find_matching_screenshot returns the file named exactly
\* source_image if it exists, even when the stripped variant exists too;
\* otherwise the file named source_image with all whitespace removed if it
\* exists; otherwise nothing, and load_annotations rejects the record with
\* exactly one error, the one about the unresolved reference.
C17_Claim_ExactThenStrippedThenReject ==
    resolve_result.done =>
        LET name == resolve_call.source_image
            present == resolve_call.screenshots_dir.files
        IN  IF name \in present
            THEN resolve_result.path = name /\ resolve_result.admit
            ELSE IF RemoveWhitespace(name) \in present
            THEN resolve_result.path = RemoveWhitespace(name) /\ resolve_result.admit
            ELSE /\ resolve_result.path = NoPath
                 /\ ~resolve_result.admit
                 /\ resolve_result.errors = <<Err("no_screenshot", 1)>>

\* C18: when the annotations directory is missing run_full_processing aborts
\* with the raised error, and annotations, sections_catalog, section_types and
\* the error list are still empty and no catalog, patterns or statistics
\* document has been written.
C18_MissingDirectoryAbortsUntouched ==
    ~annotations_dir_exists =>
        /\ pc \in {"start", "aborted"}
        /\ annotations = <<>>
        /\ sections_catalog = <<>>
        /\ section_types = EmptyMap
        /\ processing_stats.errors = <<>>
        /\ ~catalog_doc.written
        /\ ~patterns_doc.written
        /\ ~stats_doc.written
        /\ ~templates_written

\* the run has aborted on the missing directory
C18_Witness ==
    /\ ~annotations_dir_exists
    /\ pc = "aborted"
    /\ files_read = 0

\* C19 (as claimed): every module of the written catalog carries unique_id,
\* type, coordinates and the source-image key the performance analyzer reads,
\* so enrich_sections_with_performance completes on every written catalog and
\* yields exactly one enriched module per catalog module, in catalog order.
C19_Claim_AnalyzerEnrichesEveryModule ==
    /\ catalog_doc.written =>
          \A i \in 1..Len(catalog_doc.modules) :
              {"unique_id", "type", "coordinates", AnalyzerJoinKey}
                  \subseteq ModuleKeys(catalog_doc.modules[i])
    /\ analysis.status /= "none" =>
          /\ analysis.status = "enriched"
          /\ Len(analysis.enriched) = Len(catalog_doc.modules)
          /\ \A i \in 1..Len(catalog_doc.modules) :
                analysis.enriched[i].module.unique_id = catalog_doc.modules[i].unique_id

\* C20: for a section crop_section_image accepts, the recorded original width
\* is min(annotated width, image width - clamped x) and the recorded height is
\* min(annotated height, image height - clamped y), so both are at most the
\* annotated ones; x (y) is the annotated value whenever that lies in
\* [0, image width] ([0, image height]); and the crop box spans exactly the
\* recorded dimensions.
C20_SizeReducedPositionKept ==
    crop_result.ok =>
        LET annotated == crop_call.coords
            image_width == crop_call.img_size[1]
            image_height == crop_call.img_size[2]
            x == crop_result.box[1]
            y == crop_result.box[2]
        IN  /\ crop_result.original[1] = Min(annotated.width, image_width - x)
            /\ crop_result.original[2] = Min(annotated.height, image_height - y)
            /\ crop_result.original[1] <= annotated.width
            /\ crop_result.original[2] <= annotated.height
            /\ annotated.x \in 0..image_width => x = annotated.x
            /\ annotated.y \in 0..image_height => y = annotated.y
            /\ crop_result.box[3] - x = crop_result.original[1]
            /\ crop_result.box[4] - y = crop_result.original[2]

\* a section at x = 0 wider than the image is kept, recorded as wide as the image
C20_Witness ==
    /\ crop_result.ok
    /\ crop_call.coords.x = 0
    /\ crop_call.coords.width > crop_call.img_size[1]
    /\ crop_result.original[1] = crop_call.img_size[1]

\* C21: analyze_patterns leaves sections_catalog, section_types with its key
\* set, annotations, the counters of processing_stats and the error list as
\* they were, so the catalog document generated afterwards has the total and
\* the per-type counts the patterns were computed from.
C21_AnalyzePatternsReadsOnly ==
    /\ [][pc = "analyze" =>
            /\ sections_catalog' = sections_catalog
            /\ section_types' = section_types
            /\ DOMAIN section_types' = DOMAIN section_types
            /\ annotations' = annotations
            /\ processing_stats' = processing_stats]_vars
    /\ [](catalog_doc.written =>
            /\ patterns_doc.written
            /\ patterns_doc.total_sections = Len(catalog_doc.modules)
            /\ DOMAIN patterns_doc.counts = DOMAIN catalog_doc.types_index
            /\ \A k \in DOMAIN patterns_doc.counts :
                  patterns_doc.counts[k] = Len(catalog_doc.types_index[k]))

\* patterns and catalog are both written, over two types
C21_Witness ==
    /\ patterns_doc.written
    /\ catalog_doc.written
    /\ Cardinality(DOMAIN patterns_doc.counts) = 2
    /\ Len(catalog_doc.modules) = 2

\* the admitted annotations whose screenshot is open
OpenImages == {a \in 1..Len(progress) : progress[a].opens > progress[a].closes}

\* C22: during crop_sections at most one screenshot is open; an annotation's
\* screenshot is opened once, is open while its sections are processed, and is
\* closed before the next annotation's is opened, also after a dropped section
\* and after an exception that ends the annotation early.
C22_OneScreenshotOpenAtATime ==
    /\ Cardinality(OpenImages) <= 1
    /\ \A a \in 1..Len(progress) :
          /\ progress[a].opens <= 1
          /\ progress[a].closes <= progress[a].opens
          /\ (pc = "crop" /\ a = ann_idx /\ sec_idx >= 1) => a \in OpenImages
          /\ a \in OpenImages => (pc = "crop" /\ a = ann_idx)
          /\ (\E i \in 1..Len(progress[a].status) : progress[a].status[i] /= "pending")
                => progress[a].opens = 1
          /\ pc \in AfterCrop => (progress[a].opens = 1 /\ progress[a].closes = 1)

\* an exception ended one annotation with a section still unprocessed, its
\* screenshot is closed, and the next annotation's screenshot is open
C22_Witness ==
    /\ pc = "crop"
    /\ ann_idx \in OpenImages
    /\ \E a \in 1..Len(progress) :
          /\ a < ann_idx
          /\ progress[a].closes = 1
          /\ \E i \in 1..Len(progress[a].status) : progress[a].status[i] = "pending"

IsPrefix(s1, s2) == Len(s1) <= Len(s2) /\ \A i \in 1..Len(s1) : s1[i] = s2[i]

\* C23: in every step of a run the identity counter does not decrease, the
\* error list keeps its entries and only gains entries at its end, and
\* sections_catalog keeps its entries in place, with their unique_id and type,
\* and only gains entries at its end.
C23_AccumulatorsAppendOnly ==
    [][/\ section_counter' >= section_counter
       /\ IsPrefix(processing_stats.errors, processing_stats'.errors)
       /\ Len(sections_catalog') >= Len(sections_catalog)
       /\ \A i \in 1..Len(sections_catalog) :
             /\ sections_catalog'[i].unique_id = sections_catalog[i].unique_id
             /\ sections_catalog'[i].type = sections_catalog[i].type
             /\ sections_catalog'[i].origin = sections_catalog[i].origin]_vars

\* a run that has logged two errors and catalogued a section
C23_Witness ==
    /\ Len(processing_stats.errors) >= 2
    /\ Len(sections_catalog) >= 1
    /\ section_counter >= 2

RECURSIVE SumOfSizes(_, _)
\* the sum of the lengths of the groups under the keys ks
SumOfSizes(groups, ks) ==
    IF ks = {} THEN 0
    ELSE LET k == CHOOSE x \in ks : TRUE
         IN  Len(groups[k]) + SumOfSizes(groups, ks \ {k})

\* C24: in every reachable state sections_extracted equals the length of
\* sections_catalog and the sum of the sizes of the type groups,
\* files_processed equals the number of admitted annotations and
\* section_types_found is the key set of section_types; a written catalog
\* document has total_modules, section_types and types_index that agree.
C24_BookkeepingAgrees ==
    /\ processing_stats.sections_extracted = Len(sections_catalog)
    /\ processing_stats.sections_extracted = SumOfSizes(section_types, DOMAIN section_types)
    /\ processing_stats.files_processed = Len(annotations)
    /\ processing_stats.section_types_found = DOMAIN section_types
    /\ catalog_doc.written =>
          /\ catalog_doc.total_modules = Len(catalog_doc.modules)
          /\ catalog_doc.section_types = DOMAIN catalog_doc.types_index
          /\ catalog_doc.total_modules =
                SumOfSizes(catalog_doc.types_index, DOMAIN catalog_doc.types_index)
          /\ catalog_doc.source_stores = processing_stats.files_processed

\* two annotations admitted, two sections of different types extracted and catalogued
C24_Witness ==
    /\ processing_stats.files_processed = 2
    /\ processing_stats.sections_extracted = 2
    /\ Cardinality(processing_stats.section_types_found) = 2
    /\ catalog_doc.written

\* the three files the cropped_files of a catalog entry name
ReferencedFiles(entry) ==
    {<<kind, FilenameBase(entry.unique_id, entry.type)>> :
        kind \in {"full", "medium", "thumbnail"}}

\* C25 (as claimed): at the end of crop_sections every derivative file written
\* under full/, medium/ or thumbnails/ is referenced by the cropped_files of
\* exactly one catalog entry and every catalog entry references three written
\* files, so a dropped section has left no derivative file behind.
C25_Claim_FilesMatchCatalog ==
    pc \in AfterCrop =>
        /\ \A f \in files :
              Cardinality({i \in CatalogIndices :
                              f \in ReferencedFiles(sections_catalog[i])}) = 1
        /\ \A i \in CatalogIndices :
              /\ ReferencedFiles(sections_catalog[i]) \subseteq files
              /\ Cardinality(ReferencedFiles(sections_catalog[i])) = 3

\* C26 (as claimed): for a crop of width >= 1 and height >= 1 the medium size
\* and the thumbnail size calculate_resize returns have width >= 1 and
\* height >= 1, so the resize of a non-degenerate crop never fails.
C26_Claim_ResizedSidesPositive ==
    (/\ resize_result /= <<>>
     /\ resize_call.size[1] >= 1
     /\ resize_call.size[2] >= 1) =>
        /\ resize_result[1] >= 1
        /\ resize_result[2] >= 1

\* C27 (as claimed): for every accepted section the rectangle cropped lies
\* inside the annotated rectangle [x, x + width) x [y, y + height), also when
\* the annotated x or y is negative or beyond the image edge.
C27_Claim_CropInsideAnnotatedRectangle ==
    crop_result.ok =>
        LET annotated == crop_call.coords
        IN  /\ annotated.x <= crop_result.box[1]
            /\ crop_result.box[3] <= annotated.x + annotated.width
            /\ annotated.y <= crop_result.box[2]
            /\ crop_result.box[4] <= annotated.y + annotated.height

====
